---- MODULE Spec2Model ----
(***************************************************************************)
(* Model of the address-extraction workers of address_generator.           *)
(*                                                                         *)
(* Spec      : worker.py (MemoryOptimizedWorker and its osmium handler     *)
(*             MemoryOptimizedAddressExtractor), several worker processes  *)
(*             sharing the two MongoDB collections country_status and      *)
(*             address.                                                    *)
(*                                                                         *)
(* Every MongoDB call (update_one, find_one, delete_one, insert_many) is   *)
(* one atomic step; the Python code between two calls of one worker is     *)
(* local to that worker and is folded into the step of the call it leads   *)
(* to.  A signal may be delivered to a worker between any two steps.       *)
(* Timestamps (started_at, completed_at, skipped_at) and log lines are     *)
(* left out: no code reads them.                                           *)
(***************************************************************************)
EXTENDS Integers, Sequences, FiniteSets, Bags, TLC

(* ----------------------------- bounds --------------------------------- *)

\* longest stream of way records one PBF file delivers, one worker running
MaxWays == 4
\* longest stream of way records one PBF file delivers, all workers running
MaxWaysShared == 1
\* BATCH_SIZE of worker.py (50 in the source), scaled down
BATCH_SIZE == 2
\* MAX_ADDRESSES_PER_COUNTRY / BATCH_SIZE (300000 / 50 in the source), scaled down
CapBatches == 2
\* MEMORY_CHECK_INTERVAL // 10 of worker.py (1000 // 10 in the source), scaled down
WayCheckEvery == 2
\* longest stream of node and way records, worker_huge_countries.py running
HugeMaxRecords == 6
\* CHUNK_SIZE of worker_huge_countries.py (10 in the source), scaled down
CHUNK_SIZE == 2
\* 500000 / CHUNK_SIZE of worker_huge_countries.py, scaled down
HugeCapChunks == 2
\* MEMORY_CHECK_INTERVAL of worker_huge_countries.py (1000 in the source), scaled down
HugeCheckEvery == 2
\* most coordinates calculate_bbox collects from one way (101 in the source),
\* scaled down
BboxCoords == 2
\* largest PBF file and most available memory, in units of 100 MB
MaxFileSize == 6
MaxAvailable == 8
\* MAX_WORKERS of batch_controller.py (3 in the source), scaled down
MAX_WORKERS == 2
\* BATCH_SIZE of check/check.py (1000 in the source), scaled down
CHECK_BATCH_SIZE == 2
\* most address rows one country has when the checker starts
CheckRows == 4

(* --------------------------- configuration ---------------------------- *)

\* the worker ids given on the command lines
Workers == {1, 2}

\* countries.keys() of geonames_countries.json, in file order
Countries == <<"US", "XK">>

CountrySet == {Countries[i] : i \in 1..Len(Countries)}

\* keys of the GEOFABRIK_URLS table: XK has no download URL
GEOFABRIK_URLS == {"US"}

MAX_ADDRESSES_PER_COUNTRY == BATCH_SIZE * CapBatches

MAX_BBOX_AREA == 100

\* the literal 500000 of worker_huge_countries.py
HUGE_LIMIT == CHUNK_SIZE * HugeCapChunks

\* large_countries of HugeCountryWorker.claim_country, those of Countries
large_countries == <<"US">>

\* full addresses that pass every check of process_address
Addrs == {"a1", "a2"}

\* the value of current_country when it is None
None == "None"

(* ------------------------------- state -------------------------------- *)

VARIABLES
    country_status,     \* collection country_status: country_code -> document
    addresses,          \* collection address: bag of documents
    pbf_files,          \* country codes whose PBF file is in WORK_DIR
    shutdown_requested, \* per process: the global flag
    pc,                 \* per worker: position in main/run/process_country
    key_idx,            \* per worker: position of claim_country's for loop
    country_code,       \* per worker: the key claim_country returned
    current_country,    \* per worker: self.current_country
    handler,            \* per worker: the extractor's fields
    accepted,           \* history: candidates appended to addresses_batch, in order
    handed,             \* history: candidates passed to save_addresses_batch, in order
    shutdown_job,       \* history: the job the worker held when its flag was set
    mishap,             \* history: a job was released for a retry, or a call
                        \* of claim_country raised
    max_ways,           \* the longest stream of way records of this run
    controller,         \* the BatchController of batch_controller.py
    checker,            \* the worker process of check/check.py
    probe,              \* the record apply_file handed to the callbacks last,
                        \* with what each extractor made of it
    country_limit_reached \* per worker: HugeCountryWorker.country_limit_reached

vars == <<country_status, addresses, pbf_files, shutdown_requested, pc, key_idx,
          country_code, current_country, handler, accepted, handed,
          shutdown_job, mishap, max_ways, probe, controller, checker,
                   country_limit_reached>>

(* --------------------------- JobStore calls --------------------------- *)

\* the document $setOnInsert writes
\* (a field a document does not have is "none", FALSE or -1)
NewJob(w) ==
    [status |-> "processing", worker_id |-> w, reason |-> "none",
     completion_type |-> "none", addresses_saved |-> -1, limit_reached |-> FALSE]

\* a document an operator marked for retry (worker 0: whoever held it before)
RetryJob == [NewJob(0) EXCEPT !.status = "retry"]

\* update_one({"country_code": k}, {"$setOnInsert": ...}, upsert=True)
upsert_claim(col, k, w) ==
    IF k \in DOMAIN col THEN col
    ELSE [x \in DOMAIN col \cup {k} |-> IF x = k THEN NewJob(w) ELSE col[x]]

\* the same update with upsert=True: it would create the record it does not find
mark_complete_upsert(col, k) ==
    [x \in DOMAIN col \cup {k} |->
        IF x = k
        THEN [(IF k \in DOMAIN col THEN col[k] ELSE NewJob(0))
                 EXCEPT !.status = "completed"]
        ELSE col[x]]

\* update_one({"country_code": k}, {"$set": {"status": "completed", ...}})
mark_complete(col, k) ==
    IF k \in DOMAIN col THEN [col EXCEPT ![k].status = "completed"] ELSE col

\* an update that would set the status and drop the reason
mark_skipped_no_reason(col, k, r) ==
    IF k \in DOMAIN col THEN [col EXCEPT ![k].status = "skipped"] ELSE col

\* update_one({"country_code": k}, {"$set": {"status": "skipped", "reason": r, ...}})
mark_skipped(col, k, r) ==
    IF k \in DOMAIN col
    THEN [col EXCEPT ![k].status = "skipped", ![k].reason = r]
    ELSE col

\* an update that would put the record back to retry instead of deleting it
release_keeps_record(col, k) ==
    IF k \in DOMAIN col THEN [col EXCEPT ![k].status = "retry"] ELSE col

\* delete_one({"country_code": k})
release_country(col, k) == [x \in DOMAIN col \ {k} |-> col[x]]

(* -------------------------- RecordStore calls ------------------------- *)

Doc(c, a, w) == [country |-> c, fulladdress |-> a, worker_id |-> w]

\* the unique index on (country, fulladdress) refuses document d
HasKey(col, d) ==
    \E r \in BagToSet(col) :
        r.country = d.country /\ r.fulladdress = d.fulladdress

\* insert_many with ordered=True: the first refused document ends the insert
RECURSIVE insert_many_ordered(_, _)
insert_many_ordered(col, docs) ==
    IF docs = <<>> \/ HasKey(col, Head(docs)) THEN col
    ELSE insert_many_ordered(col (+) SetToBag({Head(docs)}), Tail(docs))

\* insert_many(documents, ordered=False): every document is tried, one whose
\* key is already in the collection is refused and the others still go in
RECURSIVE insert_many(_, _)
insert_many(col, docs) ==
    IF docs = <<>> THEN col
    ELSE insert_many(IF HasKey(col, Head(docs)) THEN col
                     ELSE col (+) SetToBag({Head(docs)}),
                     Tail(docs))

\* save_addresses_batch: builds one document per address and inserts them all;
\* the BulkWriteError of a refused duplicate is swallowed
save_addresses_batch(col, c, w, batch) ==
    IF batch = <<>> THEN col
    ELSE insert_many(col, [i \in 1..Len(batch) |-> Doc(c, batch[i], w)])

(* ------------------ MemoryOptimizedAddressExtractor ------------------- *)

\* the extractor as __init__ leaves it
\* (memory_checks is a field of ChunkedAddressExtractor only, limit_reached
\* one of MemoryOptimizedAddressExtractor only; memory_stop is history: a
\* check_memory_usage of this job has returned False)
NewHandler ==
    [processed |-> 0, found |-> 0, addresses_batch |-> <<>>, total_saved |-> 0,
     limit_reached |-> FALSE, memory_checks |-> 0, memory_stop |-> FALSE]

\* what a way record amounts to for the callback: its two filter tags, its
\* bounding box, and the full address process_address makes of its tags
\* ("rejected": no street, 30 characters or fewer, no city, or refused by
\* looks_like_address)
WayRecords ==
    [building : BOOLEAN, street : BOOLEAN, bbox : {50, 150},
     fulladdress : Addrs \cup {"rejected"}]

\* way: the tests between the shutdown test and process_address
PassesFilter(rec) ==
    /\ rec.building
    /\ rec.street
    /\ rec.bbox <= MAX_BBOX_AREA

\* process_address: the handler after the call and the batch it saved
\* (<<>> when none was saved)
process_address(h, a) ==
    IF a = "rejected" THEN [h |-> h, saved |-> <<>>]
    ELSE LET batch == Append(h.addresses_batch, a)
             h1 == [h EXCEPT !.addresses_batch = batch, !.found = @ + 1]
         IN  IF Len(batch) >= BATCH_SIZE
             THEN LET total == h.total_saved + Len(batch)
                  IN  [h |-> [h1 EXCEPT !.addresses_batch = <<>>,
                                        !.total_saved = total,
                                        !.limit_reached =
                                            IF total >= MAX_ADDRESSES_PER_COUNTRY
                                            THEN TRUE ELSE @],
                       saved |-> batch]
             ELSE [h |-> h1, saved |-> <<>>]

\* what check_memory_usage may return in the next callback: it is called
\* every MEMORY_CHECK_INTERVAL // 10 records
Checks(h) ==
    IF (h.processed + 1) % WayCheckEvery = 0 THEN BOOLEAN ELSE {TRUE}

\* way: the handler after the callback and the batch it saved; mem_ok is what
\* check_memory_usage returns, shut the flag shutdown_requested
way_callback(h, rec, mem_ok, shut) ==
    LET h1 == [h EXCEPT !.processed = @ + 1]
    IN  IF h1.processed % WayCheckEvery = 0 /\ ~mem_ok
        THEN [h |-> [h1 EXCEPT !.limit_reached = TRUE, !.memory_stop = TRUE],
              saved |-> <<>>]
        ELSE IF shut \/ h1.limit_reached \/ ~PassesFilter(rec)
        THEN [h |-> h1, saved |-> <<>>]
        ELSE process_address(h1, rec.fulladdress)

\* a process_country without the final save
final_batch_none(h) == <<>>

\* a final save that would hand the buffered addresses over twice
final_batch_twice(h) == h.addresses_batch \o h.addresses_batch

\* process_country, "Save final batch": the addresses it saves
final_batch_to_save(h) ==
    IF h.addresses_batch # <<>> /\ ~h.limit_reached
       /\ MAX_ADDRESSES_PER_COUNTRY - h.total_saved > 0
    THEN SubSeq(h.addresses_batch, 1,
                IF MAX_ADDRESSES_PER_COUNTRY - h.total_saved < Len(h.addresses_batch)
                THEN MAX_ADDRESSES_PER_COUNTRY - h.total_saved
                ELSE Len(h.addresses_batch))
    ELSE <<>>

(* ------------------------ MemoryOptimizedWorker ----------------------- *)

\* the worker is between a successful claim_country and the end of
\* process_country
Holding(w) == pc[w] \in {"process", "apply", "mark"}

\* history: the worker deleted the record of the job it held at the signal
NoteRelease(w, k) ==
    /\ shutdown_job' = [shutdown_job EXCEPT
                           ![w] = IF @ = k /\ k # None THEN "released" ELSE @]
    /\ mishap' = (mishap \/ pc[w] # "cleanup")

\* claim_country: the for loop moves to the next key, or returns None
NextKey(w) ==
    IF key_idx[w] < Len(Countries)
    THEN /\ key_idx' = [key_idx EXCEPT ![w] = @ + 1]
         /\ pc' = [pc EXCEPT ![w] = "claim_upsert"]
    ELSE /\ key_idx' = [key_idx EXCEPT ![w] = 1]
         /\ pc' = [pc EXCEPT ![w] = "cleanup"]

\* claim_country returns k to run, which calls process_country
Claimed(w, k) ==
    /\ country_code' = [country_code EXCEPT ![w] = k]
    /\ key_idx' = [key_idx EXCEPT ![w] = 1]
    /\ pc' = [pc EXCEPT ![w] = "process"]

\* process_country returns to run: its handler is deleted, its locals are gone
Return(w) ==
    /\ handler' = [handler EXCEPT ![w] = NewHandler]
    /\ accepted' = [accepted EXCEPT ![w] = <<>>]
    /\ handed' = [handed EXCEPT ![w] = <<>>]
    /\ country_code' = [country_code EXCEPT ![w] = None]
    /\ pc' = [pc EXCEPT ![w] = "run"]

\* run: the while test, and the first step into claim_country
run(w) ==
    /\ pc[w] = "run"
    /\ IF shutdown_requested[w]
       THEN pc' = [pc EXCEPT ![w] = "cleanup"]
       ELSE pc' = [pc EXCEPT ![w] = "claim_upsert"]
    /\ UNCHANGED <<country_status, addresses, pbf_files, shutdown_requested,
                   key_idx, country_code, current_country, handler, accepted,
                   handed, shutdown_job, mishap, max_ways, probe, controller, checker,
                   country_limit_reached>>

\* claim_country: the upsert on the key at hand; it returns the key when the
\* upsert inserted, goes on to find_one when the key exists, and moves to the
\* next key when the call raises
claim_country_upsert(w) ==
    /\ pc[w] = "claim_upsert"
    /\ LET k == Countries[key_idx[w]]
       IN  \E raises \in BOOLEAN :
             IF raises
             THEN /\ NextKey(w)
                  /\ mishap' = TRUE
                  /\ UNCHANGED <<country_status, country_code>>
             ELSE /\ country_status' = upsert_claim(country_status, k, w)
                  /\ UNCHANGED mishap
                  /\ IF k \notin DOMAIN country_status
                     THEN Claimed(w, k)
                     ELSE /\ pc' = [pc EXCEPT ![w] = "claim_find"]
                          /\ UNCHANGED <<country_code, key_idx>>
    /\ UNCHANGED <<addresses, pbf_files, shutdown_requested, current_country,
                   handler, accepted, handed, shutdown_job, max_ways, probe, controller, checker,
                   country_limit_reached>>

\* claim_country: find_one on the key that existed, and the test of its status
claim_country_find(w) ==
    /\ pc[w] = "claim_find"
    /\ LET k == Countries[key_idx[w]]
       IN  IF k \in DOMAIN country_status /\ country_status[k].status = "retry"
           THEN Claimed(w, k)
           ELSE /\ NextKey(w)
                /\ UNCHANGED country_code
    /\ UNCHANGED <<country_status, addresses, pbf_files, shutdown_requested,
                   current_country, handler, accepted, handed, shutdown_job, mishap,
                   max_ways, probe, controller, checker,
                   country_limit_reached>>

\* process_country up to apply_file: download_pbf, check_file_size, the
\* handler's construction.  outcome is what the environment makes of them.
process_country_start(w) ==
    /\ pc[w] = "process"
    /\ LET k == country_code[w]
           have == k \in pbf_files
           url == k \in GEOFABRIK_URLS
       IN  \E outcome \in {"ok", "download_failed", "file_too_large", "exception"} :
             \/ /\ outcome = "exception"
                   \* the outer except: release_country, current_country kept
                /\ country_status' = release_country(country_status, k)
                /\ NoteRelease(w, k)
                /\ current_country' = [current_country EXCEPT ![w] = k]
                /\ Return(w)
                /\ UNCHANGED pbf_files
             \/ /\ ~have
                /\ ~url \/ outcome = "download_failed"
                /\ outcome \in {"ok", "download_failed"}
                /\ country_status' =
                       mark_skipped(country_status, k,
                                    IF ~url THEN "no_geofabrik_url"
                                    ELSE "download_failed")
                /\ current_country' = [current_country EXCEPT ![w] = None]
                /\ Return(w)
                /\ UNCHANGED <<pbf_files, shutdown_job, mishap>>
             \/ /\ have \/ url
                /\ outcome = "file_too_large"
                /\ pbf_files' = pbf_files \cup {k}
                /\ country_status' = mark_skipped(country_status, k, "file_too_large")
                /\ current_country' = [current_country EXCEPT ![w] = None]
                /\ Return(w)
                /\ UNCHANGED <<shutdown_job, mishap>>
             \/ /\ have \/ url
                /\ outcome = "ok"
                /\ pbf_files' = pbf_files \cup {k}
                /\ current_country' = [current_country EXCEPT ![w] = k]
                /\ pc' = [pc EXCEPT ![w] = "apply"]
                /\ UNCHANGED <<country_status, shutdown_job, mishap, handler, accepted,
                               handed, country_code>>
    /\ UNCHANGED <<addresses, shutdown_requested, key_idx, max_ways, probe, controller, checker,
                   country_limit_reached>>

\* apply_file delivers one way record to the callback
way(w) ==
    /\ pc[w] = "apply"
    /\ handler[w].processed < max_ways
    /\ \E rec \in WayRecords, mem_ok \in Checks(handler[w]) :
         LET r == way_callback(handler[w], rec, mem_ok, shutdown_requested[w])
         IN  /\ handler' = [handler EXCEPT ![w] = r.h]
             /\ accepted' = [accepted EXCEPT ![w] =
                               IF r.h.found > handler[w].found
                               THEN Append(@, rec.fulladdress) ELSE @]
             /\ handed' = [handed EXCEPT ![w] = @ \o r.saved]
             /\ addresses' = save_addresses_batch(addresses, country_code[w], w, r.saved)
    /\ UNCHANGED <<country_status, pbf_files, shutdown_requested, pc, key_idx,
                   country_code, current_country, shutdown_job, mishap, max_ways, probe, controller, checker,
                   country_limit_reached>>

\* apply_file raises: the inner except of process_country, which leaves
\* current_country as it is
apply_file_error(w) ==
    /\ pc[w] = "apply"
    /\ \E memory_related \in BOOLEAN :
         IF memory_related
         THEN /\ country_status' =
                     mark_skipped(country_status, country_code[w], "memory_error")
              /\ UNCHANGED <<shutdown_job, mishap>>
         ELSE /\ country_status' = release_country(country_status, country_code[w])
              /\ NoteRelease(w, country_code[w])
    /\ Return(w)
    /\ UNCHANGED <<addresses, pbf_files, shutdown_requested, key_idx,
                   current_country, max_ways, probe, controller, checker,
                   country_limit_reached>>

\* apply_file returns at the end of the stream, and process_country saves
\* the final batch
final_batch(w) ==
    /\ pc[w] = "apply"
    /\ LET b == final_batch_to_save(handler[w])
       IN  /\ addresses' = save_addresses_batch(addresses, country_code[w], w, b)
           /\ handler' = [handler EXCEPT ![w].total_saved = @ + Len(b)]
           /\ handed' = [handed EXCEPT ![w] = @ \o b]
    /\ pc' = [pc EXCEPT ![w] = "mark"]
    /\ UNCHANGED <<country_status, pbf_files, shutdown_requested, key_idx,
                   country_code, current_country, accepted, shutdown_job, mishap, max_ways, probe, controller, checker,
                   country_limit_reached>>

\* process_country, "Mark complete"
mark(w) ==
    /\ pc[w] = "mark"
    /\ country_status' = mark_complete(country_status, country_code[w])
    /\ current_country' = [current_country EXCEPT ![w] = None]
    /\ Return(w)
    /\ UNCHANGED <<addresses, pbf_files, shutdown_requested, key_idx,
                   shutdown_job, mishap, max_ways, probe, controller, checker,
                   country_limit_reached>>

\* main's finally: cleanup, then the process exits
cleanup(w) ==
    /\ pc[w] = "cleanup"
    /\ IF current_country[w] # None
       THEN /\ country_status' = release_country(country_status, current_country[w])
            /\ NoteRelease(w, current_country[w])
       ELSE UNCHANGED <<country_status, shutdown_job, mishap>>
    /\ pc' = [pc EXCEPT ![w] = "exited"]
    /\ UNCHANGED <<addresses, pbf_files, shutdown_requested, key_idx,
                   country_code, current_country, handler, accepted, handed,
                   max_ways, probe, controller, checker,
                   country_limit_reached>>

\* SIGINT or SIGTERM is delivered to the worker's process
signal_handler(w) ==
    /\ pc[w] # "exited"
    /\ ~shutdown_requested[w]
    /\ shutdown_requested' = [shutdown_requested EXCEPT ![w] = TRUE]
    /\ shutdown_job' = [shutdown_job EXCEPT
                           ![w] = IF Holding(w) THEN country_code[w] ELSE @]
    /\ UNCHANGED <<mishap, country_status, addresses, pbf_files, pc, key_idx,
                   country_code, current_country, handler, accepted, handed,
                   max_ways, probe, controller, checker,
                   country_limit_reached>>

(* ---------------------- ChunkedAddressExtractor ---------------------- *)

\* what a node or way record amounts to for the callbacks of
\* worker_huge_countries.py: the building tag, whether it has addr:housenumber
\* or addr:street, whether a way has more than 500 nodes, and the full address
\* process_address makes of its tags ("rejected": refused by one of its tests)
HugeRecords ==
    {rec \in [kind : {"node", "way"}, building : BOOLEAN, addr_tag : BOOLEAN,
              complex : BOOLEAN, fulladdress : Addrs \cup {"rejected"}] :
        rec.kind = "node" => ~rec.complex}

\* what the two samples of psutil.virtual_memory() in check_memory_usage show:
\* at most 85%, above 85% and at most 90% after the cleanup, above 90% after it
MemorySamples == {"ok", "high", "critical"}

\* the samples the next check_memory_usage may see: it takes none unless its
\* counter is at a multiple of MEMORY_CHECK_INTERVAL
Huge_Samples(h) ==
    IF (h.memory_checks + 1) % HugeCheckEvery = 0 THEN MemorySamples ELSE {"ok"}

\* a cleanup that would clear the batch without saving or counting it
Huge_check_memory_usage_drop(h, mem) ==
    [h |-> [h EXCEPT !.memory_checks = @ + 1,
                     !.addresses_batch =
                         IF (h.memory_checks + 1) % HugeCheckEvery = 0 /\ mem # "ok"
                         THEN <<>> ELSE @],
     saved |-> <<>>,
     ok |-> mem # "critical"]

\* check_memory_usage: the handler after the call, the batch it saved, and
\* what it returns
Huge_check_memory_usage(h, mem) ==
    LET h1 == [h EXCEPT !.memory_checks = @ + 1]
    IN  IF h1.memory_checks % HugeCheckEvery # 0 \/ mem = "ok"
        THEN [h |-> h1, saved |-> <<>>, ok |-> TRUE]
        ELSE [h |-> [h1 EXCEPT !.total_saved = @ + Len(h.addresses_batch),
                               !.addresses_batch = <<>>,
                               !.memory_stop = @ \/ mem = "critical"],
              saved |-> h.addresses_batch,
              ok |-> mem # "critical"]

\* process_address: the handler after the call, the batches it saved, in
\* order, and whether it set worker.country_limit_reached
Huge_process_address(h, a, mem) ==
    IF h.total_saved >= HUGE_LIMIT
    THEN [h |-> h, saved |-> <<>>, limit |-> TRUE]
    ELSE LET m == Huge_check_memory_usage(h, mem)
         IN  IF ~m.ok \/ a = "rejected"
             THEN [h |-> m.h, saved |-> m.saved, limit |-> FALSE]
             ELSE LET batch == Append(m.h.addresses_batch, a)
                      h1 == [m.h EXCEPT !.addresses_batch = batch, !.found = @ + 1]
                  IN  IF Len(batch) >= CHUNK_SIZE
                      THEN [h |-> [h1 EXCEPT !.addresses_batch = <<>>,
                                             !.total_saved = @ + Len(batch)],
                            saved |-> m.saved \o batch,
                            limit |-> m.h.total_saved + Len(batch) >= HUGE_LIMIT]
                      ELSE [h |-> h1, saved |-> m.saved, limit |-> FALSE]

\* node and way: the tests between the shutdown test and process_address
Huge_PassesFilter(rec) ==
    /\ rec.building
    /\ rec.addr_tag
    /\ rec.kind = "way" => ~rec.complex

\* node and way: the handler after the callback, the batches it saved and
\* whether it set worker.country_limit_reached; limit is that flag before
\* the callback, shut the flag shutdown_requested
Huge_callback(h, rec, mem, limit, shut) ==
    IF limit THEN [h |-> h, saved |-> <<>>, limit |-> TRUE]
    ELSE LET h1 == [h EXCEPT !.processed = @ + 1]
         IN  IF shut \/ ~Huge_PassesFilter(rec)
             THEN [h |-> h1, saved |-> <<>>, limit |-> FALSE]
             ELSE Huge_process_address(h1, rec.fulladdress, mem)

(* -------------------------- HugeCountryWorker ------------------------- *)

\* claim_country's order: the large countries first, then the others
RECURSIVE Without(_, _)
Without(seq, S) ==
    IF seq = <<>> THEN <<>>
    ELSE IF Head(seq) \in S THEN Without(Tail(seq), S)
    ELSE <<Head(seq)>> \o Without(Tail(seq), S)

LargeSet == {large_countries[i] : i \in 1..Len(large_countries)}

Huge_Countries ==
    Without(large_countries, {c \in LargeSet : c \notin CountrySet})
        \o Without(Countries, LargeSet)

\* update_one({"country_code": k}, {"$set": {"status": "completed",
\* "completion_type": "full", ...}})
Huge_mark_complete(col, k) ==
    IF k \in DOMAIN col
    THEN [col EXCEPT ![k].status = "completed", ![k].completion_type = "full"]
    ELSE col

\* update_one({"country_code": k}, {"$set": {"status": "completed",
\* "completion_type": "limit_reached", "addresses_saved": n, "limit_reached": True, ...}})
mark_complete_with_limit(col, k, n) ==
    IF k \in DOMAIN col
    THEN [col EXCEPT ![k].status = "completed",
                     ![k].completion_type = "limit_reached",
                     ![k].addresses_saved = n,
                     ![k].limit_reached = TRUE]
    ELSE col

\* claim_country: the for loops move to the next key, or return None
Huge_NextKey(w) ==
    IF key_idx[w] < Len(Huge_Countries)
    THEN /\ key_idx' = [key_idx EXCEPT ![w] = @ + 1]
         /\ pc' = [pc EXCEPT ![w] = "claim_upsert"]
    ELSE /\ key_idx' = [key_idx EXCEPT ![w] = 1]
         /\ pc' = [pc EXCEPT ![w] = "cleanup"]

\* claim_country: the upsert on the key at hand
Huge_claim_country_upsert(w) ==
    /\ pc[w] = "claim_upsert"
    /\ LET k == Huge_Countries[key_idx[w]]
       IN  \E raises \in BOOLEAN :
             IF raises
             THEN /\ Huge_NextKey(w)
                  /\ mishap' = TRUE
                  /\ UNCHANGED <<country_status, country_code>>
             ELSE /\ country_status' = upsert_claim(country_status, k, w)
                  /\ UNCHANGED mishap
                  /\ IF k \notin DOMAIN country_status
                     THEN Claimed(w, k)
                     ELSE /\ pc' = [pc EXCEPT ![w] = "claim_find"]
                          /\ UNCHANGED <<country_code, key_idx>>
    /\ UNCHANGED <<addresses, pbf_files, shutdown_requested, current_country,
                   handler, accepted, handed, shutdown_job, max_ways, probe, controller, checker,
                   country_limit_reached>>

\* claim_country: find_one on the key that existed; whatever its status, the
\* loop goes on to the next key
Huge_claim_country_find(w) ==
    /\ pc[w] = "claim_find"
    /\ Huge_NextKey(w)
    /\ UNCHANGED <<country_status, addresses, pbf_files, shutdown_requested,
                   country_code, current_country, handler, accepted, handed,
                   shutdown_job, mishap, max_ways, probe, controller, checker, country_limit_reached>>

\* process_country up to apply_file: find_pbf_file and the shutdown test
Huge_process_country_start(w) ==
    /\ pc[w] = "process"
    /\ LET k == country_code[w]
       IN  \E raises \in BOOLEAN :
             IF raises
             THEN \* the outer except: release_country, current_country kept
                  /\ country_status' = release_country(country_status, k)
                  /\ NoteRelease(w, k)
                  /\ current_country' = [current_country EXCEPT ![w] = k]
                  /\ Return(w)
             ELSE IF k \notin pbf_files
             THEN /\ country_status' = mark_skipped(country_status, k, "no_pbf_file")
                  /\ current_country' = [current_country EXCEPT ![w] = None]
                  /\ Return(w)
                  /\ UNCHANGED <<shutdown_job, mishap>>
             ELSE IF shutdown_requested[w]
             THEN /\ current_country' = [current_country EXCEPT ![w] = k]
                  /\ Return(w)
                  /\ UNCHANGED <<country_status, shutdown_job, mishap>>
             ELSE /\ current_country' = [current_country EXCEPT ![w] = k]
                  /\ pc' = [pc EXCEPT ![w] = "apply"]
                  /\ UNCHANGED <<country_status, shutdown_job, mishap, handler, accepted,
                                 handed, country_code>>
    /\ country_limit_reached' = [country_limit_reached EXCEPT ![w] = FALSE]
    /\ UNCHANGED <<addresses, pbf_files, shutdown_requested, key_idx, max_ways, probe, controller, checker>>

\* apply_file delivers one record to node or way
Huge_record(w, kind) ==
    /\ pc[w] = "apply"
    /\ handler[w].processed < max_ways
    /\ \E rec \in HugeRecords, mem \in Huge_Samples(handler[w]) :
         /\ rec.kind = kind
         /\ LET r == Huge_callback(handler[w], rec, mem, country_limit_reached[w],
                                   shutdown_requested[w])
            IN  /\ handler' = [handler EXCEPT ![w] = r.h]
                /\ accepted' = [accepted EXCEPT ![w] =
                                  IF r.h.found > handler[w].found
                                  THEN Append(@, rec.fulladdress) ELSE @]
                /\ handed' = [handed EXCEPT ![w] = @ \o r.saved]
                /\ addresses' =
                       save_addresses_batch(addresses, country_code[w], w, r.saved)
                /\ country_limit_reached' =
                       [country_limit_reached EXCEPT ![w] = r.limit]
    /\ UNCHANGED <<country_status, pbf_files, shutdown_requested, pc, key_idx,
                   country_code, current_country, shutdown_job, mishap, max_ways, probe, controller, checker>>

Huge_node(w) == Huge_record(w, "node")

Huge_way(w) == Huge_record(w, "way")

\* apply_file raises: the inner except of process_country, which leaves
\* current_country as it is
Huge_apply_file_error(w) ==
    /\ pc[w] = "apply"
    /\ \E memory_related \in BOOLEAN :
         IF memory_related
         THEN /\ country_status' =
                     mark_skipped(country_status, country_code[w], "memory_error_chunked")
              /\ UNCHANGED <<shutdown_job, mishap>>
         ELSE IF handler[w].total_saved > 0
         THEN /\ country_status' =
                     mark_complete_with_limit(country_status, country_code[w],
                                              handler[w].total_saved)
              /\ UNCHANGED <<shutdown_job, mishap>>
         ELSE /\ country_status' = release_country(country_status, country_code[w])
              /\ NoteRelease(w, country_code[w])
    /\ Return(w)
    /\ UNCHANGED <<addresses, pbf_files, shutdown_requested, key_idx,
                   current_country, max_ways, probe, controller, checker, country_limit_reached>>

\* apply_file returns at the end of the stream, and process_country saves
\* the remaining addresses
Huge_final_batch(w) ==
    /\ pc[w] = "apply"
    /\ LET b == handler[w].addresses_batch
       IN  /\ addresses' = save_addresses_batch(addresses, country_code[w], w, b)
           /\ handler' = [handler EXCEPT ![w].total_saved = @ + Len(b)]
           /\ handed' = [handed EXCEPT ![w] = @ \o b]
    /\ pc' = [pc EXCEPT ![w] = "mark"]
    /\ UNCHANGED <<country_status, pbf_files, shutdown_requested, key_idx,
                   country_code, current_country, accepted, shutdown_job, mishap, max_ways, probe, controller, checker,
                   country_limit_reached>>

\* process_country, "Check completion reason"
Huge_mark(w) ==
    /\ pc[w] = "mark"
    /\ country_status' =
           IF country_limit_reached[w]
           THEN mark_complete_with_limit(country_status, country_code[w],
                                         handler[w].total_saved)
           ELSE Huge_mark_complete(country_status, country_code[w])
    /\ current_country' = [current_country EXCEPT ![w] = None]
    /\ Return(w)
    /\ UNCHANGED <<addresses, pbf_files, shutdown_requested, key_idx,
                   shutdown_job, mishap, max_ways, probe, controller, checker, country_limit_reached>>

(* ------------------------- text and OSM tags -------------------------- *)

\* a Python str is the sequence of its characters
UpperSeq ==
    <<"A", "B", "C", "D", "E", "F", "G", "H", "I", "J", "K", "L", "M",
      "N", "O", "P", "Q", "R", "S", "T", "U", "V", "W", "X", "Y", "Z">>

LowerSeq ==
    <<"a", "b", "c", "d", "e", "f", "g", "h", "i", "j", "k", "l", "m",
      "n", "o", "p", "q", "r", "s", "t", "u", "v", "w", "x", "y", "z">>

Upper == {UpperSeq[i] : i \in 1..26}

Lower == {LowerSeq[i] : i \in 1..26}

Digits == {"0", "1", "2", "3", "4", "5", "6", "7", "8", "9"}

\* str.lower and str.upper, character by character
lower_char(c) ==
    IF c \in Upper THEN LowerSeq[CHOOSE i \in 1..26 : UpperSeq[i] = c] ELSE c

upper_char(c) ==
    IF c \in Lower THEN UpperSeq[CHOOSE i \in 1..26 : LowerSeq[i] = c] ELSE c

lower(str) == [i \in 1..Len(str) |-> lower_char(str[i])]

upper(str) == [i \in 1..Len(str) |-> upper_char(str[i])]

\* str.strip: the text without its leading and trailing blanks
RECURSIVE strip(_)
strip(str) ==
    IF str = <<>> THEN str
    ELSE IF Head(str) = " " THEN strip(Tail(str))
    ELSE IF str[Len(str)] = " " THEN strip(SubSeq(str, 1, Len(str) - 1))
    ELSE str

\* sep.join(parts)
RECURSIVE join(_, _)
join(sep, parts) ==
    IF parts = <<>> THEN <<>>
    ELSE IF Len(parts) = 1 THEN parts[1]
    ELSE parts[1] \o sep \o join(sep, Tail(parts))

\* str.split(","): the sections between the commas
RECURSIVE split_commas(_, _)
split_commas(str, section) ==
    IF str = <<>> THEN <<section>>
    ELSE IF Head(str) = "," THEN <<section>> \o split_commas(Tail(str), <<>>)
    ELSE split_commas(Tail(str), Append(section, Head(str)))

\* the number of characters of str that are in set S
RECURSIVE count_in(_, _)
count_in(str, S) ==
    IF str = <<>> THEN 0
    ELSE (IF Head(str) \in S THEN 1 ELSE 0) + count_in(Tail(str), S)

\* the texts of the tags and names the records of this model carry
S_house == <<"h", "o", "u", "s", "e">>

S_MainSt == <<"M", "a", "i", "n", " ", "S", "t">>

S_12 == <<"1", "2">>

S_Springfield == <<"S", "p", "r", "i", "n", "g", "f", "i", "e", "l", "d">>

S_Unknown == <<"U", "n", "k", "n", "o", "w", "n">>

S_US == <<"U", "S">>

S_OldTown == <<"O", "l", "d", " ", "T", "o", "w", "n">>

S_12345 == <<"1", "2", "3", "4", "5">>

S_CityHall == <<"C", "i", "t", "y", " ", "H", "a", "l", "l">>

S_UnitedStates ==
    <<"U", "n", "i", "t", "e", "d", " ", "S", "t", "a", "t", "e", "s">>

S_Kosovo == <<"K", "o", "s", "o", "v", "o">>

\* marks a tag the record does not have, in the choices below
Absent == <<"(absent)">>

\* join's result for no part at all: format_full_address returns None
NoText == <<"(None)">>

S_us == <<"u", "s">>

(* ----------------- the extractors' functions of the tags --------------- *)

S_MK == <<"M", "K">>

S_Macedonia == <<"M", "a", "c", "e", "d", "o", "n", "i", "a">>

S_NorthMacedonia == <<"N", "o", "r", "t", "h", " ">> \o S_Macedonia

\* self.country_names, of which the model keeps the entries of the United
\* States and of Macedonia; Kosovo (XK) has none
country_names == S_US :> S_UnitedStates @@ S_MK :> S_Macedonia

\* the country code itself, with no look-up of its full name
get_country_name_code(code, country_name) == code

\* get_country_name(country_code), in a job whose country is named country_name
get_country_name(code, country_name) ==
    IF upper(code) \in DOMAIN country_names
    THEN country_names[upper(code)] ELSE country_name

\* key.replace('addr:', '')
InfoKey(k) ==
    CASE k = "addr:housenumber" -> "housenumber"
      [] k = "addr:street" -> "street"
      [] k = "addr:city" -> "city"
      [] k = "addr:country" -> "country"
      [] k = "addr:suburb" -> "suburb"
      [] k = "addr:postcode" -> "postcode"
      [] OTHER -> k

\* the tags of keys, under the names extract_address_info gives them
Extracted(tags, keys) ==
    LET ks == keys \cap DOMAIN tags
    IN  [f \in {InfoKey(k) : k \in ks} |->
            tags[CHOOSE k \in ks : InfoKey(k) = f]]

\* MemoryOptimizedAddressExtractor.extract_address_info
extract_address_info(tags) ==
    Extracted(tags, {"addr:housenumber", "addr:street", "addr:city",
                     "addr:country", "addr:suburb", "addr:postcode",
                     "building", "name"})

\* ChunkedAddressExtractor.extract_address_info (building_type, which no
\* later step reads, is left out)
Huge_extract_address_info(tags) ==
    Extracted(tags, {"addr:housenumber", "addr:street", "addr:city",
                     "addr:country", "name"})

\* the part of an address that addr_info[f] makes, if it is there
Part(addr_info, f) ==
    IF f \in DOMAIN addr_info THEN <<addr_info[f]>> ELSE <<>>

\* the part made of house number and street
StreetPart(addr_info) ==
    IF "housenumber" \in DOMAIN addr_info /\ "street" \in DOMAIN addr_info
    THEN <<addr_info["housenumber"] \o <<" ">> \o addr_info["street"]>>
    ELSE Part(addr_info, "street")

\* ', '.join(parts) if parts else None
JoinParts(parts) ==
    IF parts # <<>> THEN join(<<",", " ">>, parts) ELSE NoText

\* MemoryOptimizedAddressExtractor.format_full_address
format_full_address(addr_info, country_name) ==
    JoinParts(Part(addr_info, "name") \o StreetPart(addr_info)
                \o Part(addr_info, "suburb") \o Part(addr_info, "city")
                \o Part(addr_info, "postcode") \o <<country_name>>)

\* ChunkedAddressExtractor.format_full_address
Huge_format_full_address(addr_info, country_name) ==
    JoinParts(Part(addr_info, "name") \o StreetPart(addr_info)
                \o Part(addr_info, "city") \o <<country_name>>)

(* ------------------------- looks_like_address -------------------------- *)

\* the characters \w matches, and those [^\W\d] matches
WordChars == Lower \cup Upper \cup Digits \cup {"_"}

LetterChars == Lower \cup Upper \cup {"_"}

\* the characters looks_like_address refuses (its list, less the backquote
\* and the two guillemets, which no text of the model holds)
special_chars == {":", "%", "$", "@", "*", "^", "[", "]", "{", "}", "_"}

\* str.replace(c, ''), for the characters of S
RECURSIVE remove_chars(_, _)
remove_chars(str, S) ==
    IF str = <<>> THEN <<>>
    ELSE (IF Head(str) \in S THEN <<>> ELSE <<Head(str)>>)
             \o remove_chars(Tail(str), S)

\* the comma-separated sections that hold an ASCII digit
sections_with_numbers(address) ==
    LET sections == split_commas(remove_chars(address, {"-", ";"}), <<>>)
    IN  {i \in 1..Len(sections) : count_in(strip(sections[i]), Digits) > 0}

\* looks_like_address(address), rule by rule in the order of the source:
\* the first rule the address fails, or "ok"
looks_like_address_rule(text) ==
    LET address == lower(strip(text))
    IN  IF count_in(strip(address), WordChars) < 30 THEN "too_short"
        ELSE IF count_in(strip(address), WordChars) > 300 THEN "too_long"
        ELSE IF count_in(address, LetterChars) < 20 THEN "few_letters"
        ELSE IF count_in(address, Lower \cup Upper) = 0 THEN "no_letters"
        ELSE IF Cardinality({address[i] : i \in 1..Len(address)}) < 5
             THEN "same_chars"
        ELSE IF Cardinality(sections_with_numbers(address)) < 1 THEN "no_number"
        ELSE IF count_in(address, {","}) < 2 THEN "few_commas"
        ELSE IF count_in(address, special_chars) > 0 THEN "special_chars"
        ELSE "ok"

looks_like_address(text) == looks_like_address_rule(text) = "ok"

(* ----------------------------- calculate_bbox -------------------------- *)

\* A node of a way is [lat, lon, valid], lat and lon in units of 0.00001
\* degree, so that lat_diff * 111000 m is lat_diff * 1110 mm and
\* lon_diff * 111000 * 0.7 m is lon_diff * 777 mm: calculate_bbox and
\* max_bbox are in millimetres here.
Max(S) == CHOOSE x \in S : \A y \in S : y <= x

Min(S) == CHOOSE x \in S : \A y \in S : x <= y

\* the valid coordinates calculate_bbox collects: it stops after the one
\* that makes more than BboxCoords - 1 of them
RECURSIVE valid_coords(_, _)
valid_coords(nodes, got) ==
    IF nodes = <<>> \/ Len(got) > BboxCoords - 1 THEN got
    ELSE valid_coords(Tail(nodes),
                      IF Head(nodes).valid THEN Append(got, Head(nodes))
                      ELSE got)

calculate_bbox(nodes) ==
    IF Len(nodes) < 2 THEN 0
    ELSE LET coords == valid_coords(nodes, <<>>)
             lats == {coords[i].lat : i \in 1..Len(coords)}
             lons == {coords[i].lon : i \in 1..Len(coords)}
         IN  IF Len(coords) < 2 THEN 0
             ELSE Max({(Max(lats) - Min(lats)) * 1110,
                       (Max(lons) - Min(lons)) * 777})

\* self.max_bbox = MAX_BBOX_AREA, in millimetres
max_bbox == MAX_BBOX_AREA * 1000

(* ------------------ one record through the callbacks ------------------- *)

\* What a callback did with one record: the check that turned it away, or
\* "appended"; whether extract_address_info and looks_like_address were
\* called; the text format_full_address made, if it was called; and whether
\* the record's address was appended to addresses_batch.
Outcome(stage, extracted, validated, text) ==
    [stage |-> stage, extracted |-> extracted, validated |-> validated,
     fulladdress |-> text, appended |-> (stage = "appended")]

\* addr_info.get('country', self.country_code), made a full name
CountryNameOf(addr_info, job) ==
    get_country_name(IF "country" \in DOMAIN addr_info
                     THEN addr_info["country"] ELSE job.country_code,
                     job.country_name)

\* addr_info.get('city', ''): a record without a city passes the city check
CityOf_blank(addr_info) ==
    IF "city" \in DOMAIN addr_info THEN addr_info["city"] ELSE <<>>

\* addr_info.get('city', 'Unknown')
CityOf(addr_info) ==
    IF "city" \in DOMAIN addr_info THEN addr_info["city"] ELSE S_Unknown

\* MemoryOptimizedAddressExtractor.process_address up to the append, for
\* the addr_info the way callback extracted
process_address_checks(addr_info, job) ==
    LET full_address == format_full_address(addr_info, CountryNameOf(addr_info, job))
    IN  IF "street" \notin DOMAIN addr_info
        THEN Outcome("no_street", TRUE, FALSE, NoText)
        ELSE IF full_address \in {NoText, <<>>} \/ Len(full_address) <= 30
        THEN Outcome("short", TRUE, FALSE, full_address)
        ELSE IF CityOf(addr_info) = S_Unknown
        THEN Outcome("city", TRUE, FALSE, full_address)
        ELSE IF ~looks_like_address(full_address)
        THEN Outcome("invalid", TRUE, TRUE, full_address)
        ELSE Outcome("appended", TRUE, TRUE, full_address)

\* MemoryOptimizedAddressExtractor.way, for a record that arrives while
\* memory is fine, the cap is not reached and no shutdown was requested
way_record(rec, job) ==
    IF "building" \notin DOMAIN rec.tags THEN Outcome("filter", FALSE, FALSE, NoText)
    ELSE IF "addr:street" \notin DOMAIN rec.tags
    THEN Outcome("filter", FALSE, FALSE, NoText)
    ELSE IF calculate_bbox(rec.nodes) > max_bbox
    THEN Outcome("bbox", FALSE, FALSE, NoText)
    ELSE process_address_checks(extract_address_info(rec.tags), job)

\* MemoryOptimizedAddressExtractor has no node callback (its text is
\* commented out): apply_file hands it no node
node_record(rec, job) == Outcome("no_callback", FALSE, FALSE, NoText)

\* ChunkedAddressExtractor.process_address up to the append, below the cap
\* and with memory fine
Huge_process_address_checks(addr_info, job) ==
    LET full_address ==
            Huge_format_full_address(addr_info, CountryNameOf(addr_info, job))
    IN  IF "street" \notin DOMAIN addr_info /\ "housenumber" \notin DOMAIN addr_info
        THEN Outcome("no_street", TRUE, FALSE, NoText)
        ELSE IF full_address \in {NoText, <<>>} \/ Len(full_address) <= 30
        THEN Outcome("short", TRUE, FALSE, full_address)
        ELSE IF CityOf(addr_info) = S_Unknown
        THEN Outcome("city", TRUE, FALSE, full_address)
        ELSE Outcome("appended", TRUE, FALSE, full_address)

\* the tag filter the node and way callbacks of worker_huge_countries.py,
\* worker_memory_safe.py and worker_enhanced.py share
has_building_and_address(tags) ==
    /\ "building" \in DOMAIN tags
    /\ ("addr:housenumber" \in DOMAIN tags \/ "addr:street" \in DOMAIN tags)

\* ChunkedAddressExtractor.node
Huge_node_record(rec, job) ==
    IF ~has_building_and_address(rec.tags) THEN Outcome("filter", FALSE, FALSE, NoText)
    ELSE Huge_process_address_checks(Huge_extract_address_info(rec.tags), job)

\* ChunkedAddressExtractor.way
Huge_way_record(rec, job) ==
    IF ~has_building_and_address(rec.tags) THEN Outcome("filter", FALSE, FALSE, NoText)
    ELSE IF rec.n_nodes > 500 THEN Outcome("bbox", FALSE, FALSE, NoText)
    ELSE Huge_process_address_checks(Huge_extract_address_info(rec.tags), job)

\* MemorySafeExtractor.way up to extract_address_info: the check that turns
\* the record away, or "extract"
MemorySafe_way_stage(rec) ==
    IF ~has_building_and_address(rec.tags) THEN "filter"
    ELSE IF rec.n_nodes > 2 /\ ~(rec.n_nodes < 1000) THEN "bbox"
    ELSE "extract"

\* MemorySafeExtractor.node up to extract_address_info
MemorySafe_node_stage(rec) ==
    IF ~has_building_and_address(rec.tags) THEN "filter" ELSE "extract"

\* AddressExtractor.calculate_bbox of worker_enhanced.py: every valid node
Enhanced_calculate_bbox(nodes) ==
    LET valid == {i \in 1..Len(nodes) : nodes[i].valid}
        lats == {nodes[i].lat : i \in valid}
        lons == {nodes[i].lon : i \in valid}
    IN  IF Len(nodes) < 2 \/ valid = {} THEN 0
        ELSE Max({(Max(lats) - Min(lats)) * 1110,
                  (Max(lons) - Min(lons)) * 777})

\* AddressExtractor.way of worker_enhanced.py up to extract_address_info
Enhanced_way_stage(rec) ==
    IF ~has_building_and_address(rec.tags) THEN "filter"
    ELSE IF Enhanced_calculate_bbox(rec.nodes) > max_bbox THEN "bbox"
    ELSE "extract"

\* AddressExtractor.node of worker_enhanced.py up to extract_address_info
Enhanced_node_stage(rec) ==
    IF ~has_building_and_address(rec.tags) THEN "filter" ELSE "extract"

\* no record has been handed to the callbacks yet
NoProbe == [kind |-> "none"]

(* -------------------- the records of the PBF files --------------------- *)

S_XK == <<"X", "K">>

S_empty == <<>>

\* the jobs a handler is made for: country_code and countries[code]['name'],
\* the name geonames_countries.json gives the country, which need not be the
\* name of self.country_names
TagJobs ==
    {[country_code |-> S_US, country_name |-> S_UnitedStates],
     [country_code |-> S_XK, country_name |-> S_Kosovo],
     [country_code |-> S_MK, country_name |-> S_NorthMacedonia]}

\* the one tag k = v, or no tag if the record does not have k
Tag(k, v) == IF v = Absent THEN <<>> ELSE k :> v

Node(lat, lon, valid) == [lat |-> lat, lon |-> lon, valid |-> valid]

\* the node lists of the ways: nodes is the list up to its third node,
\* n_nodes is len(w.nodes)
WayShapes ==
    LET small == <<Node(0, 0, TRUE), Node(50, 50, TRUE)>>
        large == <<Node(0, 0, TRUE), Node(136, 0, TRUE)>>
        tail == <<Node(0, 0, TRUE), Node(50, 50, TRUE), Node(136, 0, TRUE)>>
    IN  {[nodes |-> <<Node(0, 0, TRUE)>>, n_nodes |-> 1],
         [nodes |-> small, n_nodes |-> 2],
         [nodes |-> large, n_nodes |-> 2],
         [nodes |-> <<Node(0, 0, TRUE), Node(136, 0, FALSE)>>, n_nodes |-> 2],
         [nodes |-> tail, n_nodes |-> 3],
         [nodes |-> tail, n_nodes |-> 501],
         [nodes |-> tail, n_nodes |-> 1000]}

\* the tag sets of the records
TagSets ==
    {Tag("building", b) @@ Tag("addr:street", st) @@ Tag("addr:housenumber", hn)
       @@ Tag("addr:city", ci) @@ Tag("addr:country", co)
       @@ Tag("addr:suburb", su) @@ Tag("addr:postcode", po) @@ Tag("name", na) :
       b \in {Absent, S_house}, st \in {Absent, S_MainSt},
       hn \in {Absent, S_12}, ci \in {Absent, S_Springfield, S_Unknown},
       co \in {Absent, S_US, S_us}, su \in {Absent, S_OldTown, S_empty},
       po \in {Absent, S_12345}, na \in {Absent, S_CityHall}}

\* apply_file hands one way to the way callback of each extractor
deliver_way ==
    /\ probe = NoProbe
    /\ \E tags \in TagSets, shape \in WayShapes, job \in TagJobs :
          LET rec == [tags |-> tags, nodes |-> shape.nodes, n_nodes |-> shape.n_nodes]
          IN  probe' = [kind |-> "way", rec |-> rec, job |-> job,
                        basic |-> way_record(rec, job),
                        huge |-> Huge_way_record(rec, job),
                        memory_safe |-> MemorySafe_way_stage(rec),
                        enhanced |-> Enhanced_way_stage(rec)]
    /\ UNCHANGED <<country_status, addresses, pbf_files, shutdown_requested, pc,
                   key_idx, country_code, current_country, handler, accepted,
                   handed, shutdown_job, mishap, max_ways, controller, checker,
                   country_limit_reached>>

\* apply_file hands one node to the node callback of each extractor that
\* has one
deliver_node ==
    /\ probe = NoProbe
    /\ \E tags \in TagSets, job \in TagJobs :
          LET rec == [tags |-> tags, nodes |-> <<>>, n_nodes |-> 0]
          IN  probe' = [kind |-> "node", rec |-> rec, job |-> job,
                        basic |-> node_record(rec, job),
                        huge |-> Huge_node_record(rec, job),
                        memory_safe |-> MemorySafe_node_stage(rec),
                        enhanced |-> Enhanced_node_stage(rec)]
    /\ UNCHANGED <<country_status, addresses, pbf_files, shutdown_requested, pc,
                   key_idx, country_code, current_country, handler, accepted,
                   handed, shutdown_job, mishap, max_ways, controller, checker,
                   country_limit_reached>>

\* the callbacks have returned: apply_file goes on to the next record
next_record ==
    /\ probe # NoProbe
    /\ probe' = NoProbe
    /\ UNCHANGED <<country_status, addresses, pbf_files, shutdown_requested, pc,
                   key_idx, country_code, current_country, handler, accepted,
                   handed, shutdown_job, mishap, max_ways, controller, checker,
                   country_limit_reached>>

(* ------------------------- the admission checks ------------------------ *)

\* Sizes are in units of 100 MB. What a check answers: TRUE, FALSE, or
\* "raises" when pbf_file.stat() fails in a check that does not catch it.

\* MemoryOptimizedWorker.check_file_size of worker.py
check_file_size(file_size, available_memory, monitoring, stat_fails) ==
    IF stat_fails THEN TRUE
    ELSE IF monitoring THEN ~(file_size * 2 > available_memory)
    ELSE ~(file_size > 2)

\* MemorySafeWorker.check_memory_safety, the first of its pair
check_memory_safety(file_size, available_memory, percent, monitoring, stat_fails) ==
    IF stat_fails THEN "raises"
    ELSE IF monitoring
    THEN IF file_size * 4 > available_memory THEN FALSE
         ELSE IF percent > 80 THEN FALSE
         ELSE TRUE
    ELSE ~(file_size > 5)

\* EnhancedAddressWorker.check_file_size; monitoring is whether psutil can
\* be imported
Enhanced_check_file_size(file_size, available_memory, monitoring, stat_fails) ==
    IF stat_fails THEN "raises"
    ELSE IF monitoring THEN ~(file_size * 4 > available_memory)
    ELSE ~(file_size > 5)

\* process_country of each worker asks its check about the PBF file it found
admission_check ==
    /\ probe = NoProbe
    /\ \E file_size \in 0..MaxFileSize, available_memory \in 0..MaxAvailable,
          percent \in {50, 79, 80, 81, 84, 85, 86}, monitoring \in BOOLEAN,
          stat_fails \in BOOLEAN :
          probe' = [kind |-> "admission", file_size |-> file_size,
                    available_memory |-> available_memory, percent |-> percent,
                    monitoring |-> monitoring, stat_fails |-> stat_fails,
                    basic |-> check_file_size(file_size, available_memory,
                                              monitoring, stat_fails),
                    memory_safe |-> check_memory_safety(file_size, available_memory,
                                                        percent, monitoring, stat_fails),
                    enhanced |-> Enhanced_check_file_size(file_size, available_memory,
                                                          monitoring, stat_fails)]
    /\ UNCHANGED <<country_status, addresses, pbf_files, shutdown_requested, pc,
                   key_idx, country_code, current_country, handler, accepted,
                   handed, shutdown_job, mishap, max_ways, controller, checker,
                   country_limit_reached>>

(* ------------------------- batch_controller.py ------------------------- *)

\* The controller's worker processes are told apart by worker id: proc[i]
\* is the state of the latest process started for worker i, and
\* running_workers is the set of keys of the dictionary, whose value for i
\* is that process. main_pc, handler_pc and monitor_pc are the positions of
\* the main thread, of the signal handler that interrupts it, and of the
\* monitor thread; scan is what is left of the monitor's list(items()).
\* handled and late_start are history: the signal handler has returned, and
\* a process was started after it had.
ControllerIds == 1..MAX_WORKERS

NewController ==
    [running_workers |-> {}, shutdown_requested |-> FALSE,
     proc |-> [i \in ControllerIds |-> "none"],
     main_pc |-> "start", handler_pc |-> "idle", monitor_pc |-> "none",
     scan |-> <<>>, handled |-> FALSE, late_start |-> FALSE]

\* the state of the extraction workers
workers_vars ==
    <<country_status, addresses, pbf_files, shutdown_requested, pc, key_idx,
      country_code, current_country, handler, accepted, handed, shutdown_job,
      mishap, max_ways, probe, country_limit_reached>>

\* the ids of S in increasing order
RECURSIVE IdSeq(_)
IdSeq(S) ==
    IF S = {} THEN <<>>
    ELSE LET i == CHOOSE x \in S : \A y \in S : x <= y
         IN  <<i>> \o IdSeq(S \ {i})

\* process.terminate() and process.wait() for every process in the dictionary
terminate_all(c) ==
    [i \in ControllerIds |->
        IF i \in c.running_workers /\ c.proc[i] = "running" THEN "exited"
        ELSE c.proc[i]]

\* run_batch, lines 120-127: start min(MAX_WORKERS, len(countries)) workers
\* and the monitor thread
run_batch_start ==
    /\ controller.main_pc = "start"
    /\ controller.handler_pc = "idle"
    /\ \E n \in ControllerIds :
          controller' = [controller EXCEPT
              !.proc = [i \in ControllerIds |-> IF i <= n THEN "running" ELSE "none"],
              !.running_workers = 1..n,
              !.monitor_pc = "test",
              !.main_pc = "wait"]
    /\ UNCHANGED <<workers_vars, checker>>

\* run_batch, line 131: one test of the wait loop
run_batch_wait ==
    /\ controller.main_pc = "wait"
    /\ controller.handler_pc = "idle"
    /\ controller' = [controller EXCEPT
          !.main_pc = IF controller.running_workers # {}
                         /\ ~controller.shutdown_requested
                      THEN "wait" ELSE "stop"]
    /\ UNCHANGED <<workers_vars, checker>>

\* stop_all_workers called by run_batch (line 140), up to its clear()
run_batch_stop ==
    /\ controller.main_pc = "stop"
    /\ controller.handler_pc = "idle"
    /\ controller' = [controller EXCEPT !.proc = terminate_all(controller),
                                        !.main_pc = "clear"]
    /\ UNCHANGED <<workers_vars, checker>>

\* running_workers.clear() of that call, and run_batch returns
run_batch_return ==
    /\ controller.main_pc = "clear"
    /\ controller.handler_pc = "idle"
    /\ controller' = [controller EXCEPT !.running_workers = {},
                                        !.main_pc = "returned"]
    /\ UNCHANGED <<workers_vars, checker>>

\* BatchController.signal_handler: SIGINT or SIGTERM interrupts the main
\* thread, and the handler sets the flag
controller_signal_handler ==
    /\ controller.main_pc \in {"wait", "stop", "clear"}
    /\ controller.handler_pc = "idle"
    /\ ~controller.shutdown_requested
    /\ controller' = [controller EXCEPT !.shutdown_requested = TRUE,
                                        !.handler_pc = "stop"]
    /\ UNCHANGED <<workers_vars, checker>>

\* stop_all_workers called by the handler, up to its clear()
signal_stop_all_workers ==
    /\ controller.handler_pc = "stop"
    /\ controller' = [controller EXCEPT !.proc = terminate_all(controller),
                                        !.handler_pc = "clear"]
    /\ UNCHANGED <<workers_vars, checker>>

\* running_workers.clear() of that call; the handler returns
signal_handler_return ==
    /\ controller.handler_pc = "clear"
    /\ controller' = [controller EXCEPT !.running_workers = {},
                                        !.handler_pc = "idle",
                                        !.handled = TRUE]
    /\ UNCHANGED <<workers_vars, checker>>

\* monitor_workers, lines 102-105: the loop's test, the sleep and the
\* snapshot of the dictionary
monitor_test ==
    /\ controller.monitor_pc = "test"
    /\ controller' = [controller EXCEPT
          !.monitor_pc = IF controller.shutdown_requested THEN "ended" ELSE "poll",
          !.scan = IF controller.shutdown_requested THEN <<>>
                   ELSE IdSeq(controller.running_workers)]
    /\ UNCHANGED <<workers_vars, checker>>

\* line 106: process.poll() of the next entry of the snapshot
monitor_poll ==
    /\ controller.monitor_pc = "poll"
    /\ controller' = [controller EXCEPT
          !.monitor_pc = IF controller.scan = <<>> THEN "test"
                         ELSE IF controller.proc[Head(controller.scan)] = "running"
                         THEN "poll" ELSE "del",
          !.scan = IF controller.scan # <<>>
                      /\ controller.proc[Head(controller.scan)] = "running"
                   THEN Tail(controller.scan) ELSE controller.scan]
    /\ UNCHANGED <<workers_vars, checker>>

\* line 108: del self.running_workers[worker_id], a KeyError if the
\* dictionary was cleared since the snapshot
monitor_del ==
    /\ controller.monitor_pc = "del"
    /\ controller' = [controller EXCEPT
          !.monitor_pc = IF Head(controller.scan) \in controller.running_workers
                         THEN "check" ELSE "crashed",
          !.running_workers = @ \ {Head(controller.scan)}]
    /\ UNCHANGED <<workers_vars, checker>>

\* line 111: restart the worker unless shutdown was requested
monitor_check ==
    /\ controller.monitor_pc = "check"
    /\ controller' = [controller EXCEPT
          !.monitor_pc = IF ~controller.shutdown_requested
                            /\ Cardinality(controller.running_workers) < MAX_WORKERS
                         THEN "start" ELSE "poll",
          !.scan = IF ~controller.shutdown_requested
                      /\ Cardinality(controller.running_workers) < MAX_WORKERS
                   THEN controller.scan ELSE Tail(controller.scan)]
    /\ UNCHANGED <<workers_vars, checker>>

\* line 112: start_worker(worker_id)
monitor_start_worker ==
    /\ controller.monitor_pc = "start"
    /\ controller' = [controller EXCEPT
          !.proc[Head(controller.scan)] = "running",
          !.late_start = @ \/ controller.handled,
          !.monitor_pc = "assign"]
    /\ UNCHANGED <<workers_vars, checker>>

\* line 113: self.running_workers[worker_id] = new_process
monitor_assign ==
    /\ controller.monitor_pc = "assign"
    /\ controller' = [controller EXCEPT
          !.running_workers = @ \cup {Head(controller.scan)},
          !.scan = Tail(controller.scan),
          !.monitor_pc = "poll"]
    /\ UNCHANGED <<workers_vars, checker>>

\* a worker process finds no country left to claim and exits
worker_exits ==
    /\ \E i \in ControllerIds :
          /\ controller.proc[i] = "running"
          /\ controller' = [controller EXCEPT !.proc[i] = "exited"]
    /\ UNCHANGED <<workers_vars, checker>>

main_thread ==
    run_batch_start \/ run_batch_wait \/ run_batch_stop \/ run_batch_return
      \/ signal_stop_all_workers \/ signal_handler_return

monitor_workers ==
    monitor_test \/ monitor_poll \/ monitor_del \/ monitor_check
      \/ monitor_start_worker \/ monitor_assign

(* ----------------------------- check/check.py -------------------------- *)

\* One process of check.py. status is its view of country_status (the
\* records of US and XK, both completed by the extraction); rows is what
\* find({"country": country_code}) returns in its order, by the _id of the
\* rows. examined and start_rows are history: the rows process_addresses_batch
\* looked at for the current country, and the rows the country had when
\* process_country counted them; error says that process_country raised.
NewChecker ==
    [status |-> [c \in CountrySet |-> [status |-> "completed", worker_id |-> 0]],
     rows |-> <<>>, pc |-> "start", country_code |-> None,
     total_addresses |-> 0, skip |-> 0, addresses_batch |-> <<>>, i |-> 1,
     shutdown_requested |-> FALSE, error |-> FALSE,
     examined |-> <<>>, start_rows |-> <<>>]

\* the sequence seq without its element r
RECURSIVE without(_, _)
without(seq, r) ==
    IF seq = <<>> THEN <<>>
    ELSE IF Head(seq) = r THEN without(Tail(seq), r)
    ELSE <<Head(seq)>> \o without(Tail(seq), r)

\* cursor.skip(skip).limit(limit) over rows
get_addresses_with_fields(rows, skip, limit) ==
    IF skip >= Len(rows) THEN <<>>
    ELSE SubSeq(rows, skip + 1,
                IF skip + limit <= Len(rows) THEN skip + limit ELSE Len(rows))

\* update_one({country_code, worker_id}, {$set: {status: "checked"}})
check_release_country(status, code, w) ==
    IF status[code].worker_id = w
    THEN [status EXCEPT ![code].status = "checked"]
    ELSE status

\* every variable but checker
other_vars == <<workers_vars, controller>>

\* main and run_validation begin
check_start ==
    /\ checker.pc = "start"
    /\ checker' = [checker EXCEPT !.pc = "run"]
    /\ UNCHANGED other_vars

\* run_validation, one turn of its loop: claim_country's
\* find_one_and_update of a record with status "completed"
check_claim_country ==
    /\ checker.pc = "run"
    /\ LET completed == {c \in CountrySet : checker.status[c].status = "completed"}
       IN  IF checker.shutdown_requested \/ completed = {}
           THEN checker' = [checker EXCEPT !.pc = "exited"]
           ELSE \E c \in completed, n \in 0..CheckRows :
                  checker' = [checker EXCEPT
                      !.status[c] = [status |-> "checking", worker_id |-> 1],
                      !.country_code = c,
                      !.rows = [r \in 1..n |-> r],
                      !.error = FALSE,
                      !.examined = <<>>,
                      !.start_rows = <<>>,
                      !.pc = "count"]
    /\ UNCHANGED other_vars

\* process_country, lines 341-357: count_documents, which may raise
check_count ==
    /\ checker.pc = "count"
    /\ \E raises \in BOOLEAN :
          checker' = [checker EXCEPT
              !.total_addresses = IF raises THEN 0 ELSE Len(checker.rows),
              !.start_rows = IF raises THEN <<>> ELSE checker.rows,
              !.skip = 0,
              !.error = raises,
              !.pc = IF raises \/ Len(checker.rows) = 0 THEN "release" ELSE "loop"]
    /\ UNCHANGED other_vars

\* lines 359-366: the loop's test and get_addresses_with_fields
check_loop ==
    /\ checker.pc = "loop"
    /\ LET batch == get_addresses_with_fields(checker.rows, checker.skip,
                                               CHECK_BATCH_SIZE)
       IN  IF checker.skip < checker.total_addresses
              /\ ~checker.shutdown_requested /\ batch # <<>>
           THEN checker' = [checker EXCEPT !.addresses_batch = batch, !.i = 1,
                                          !.pc = "batch"]
           ELSE checker' = [checker EXCEPT !.pc = "release"]
    /\ UNCHANGED other_vars

\* process_addresses_batch, one address: it is found valid or is not
\* corrected ("kept"), or it is deleted, or it is corrected and its country
\* field rewritten to Nominatim's country name; the last two take it out of
\* the rows of the country
check_process_address ==
    /\ checker.pc = "batch"
    /\ checker.i <= Len(checker.addresses_batch)
    /\ ~checker.shutdown_requested
    /\ \E verdict \in {"kept", "deleted", "corrected"} :
          LET r == checker.addresses_batch[checker.i]
          IN  checker' = [checker EXCEPT
                  !.examined = Append(@, r),
                  !.rows = IF verdict = "kept" THEN @ ELSE without(@, r),
                  !.i = @ + 1]
    /\ UNCHANGED other_vars

\* process_addresses_batch returns, at the end of the batch or at its break
\* on shutdown_requested, and process_country adds BATCH_SIZE to skip
check_batch_done ==
    /\ checker.pc = "batch"
    /\ checker.i > Len(checker.addresses_batch) \/ checker.shutdown_requested
    /\ checker' = [checker EXCEPT !.skip = @ + CHECK_BATCH_SIZE,
                                  !.addresses_batch = <<>>,
                                  !.pc = "loop"]
    /\ UNCHANGED other_vars

\* lines 344, 379-385 and 389: release_country, on every path out of
\* process_country
check_release ==
    /\ checker.pc = "release"
    /\ checker' = [checker EXCEPT
          !.status = check_release_country(checker.status, checker.country_code, 1),
          !.pc = "run"]
    /\ UNCHANGED other_vars

\* check.py's signal_handler
check_signal_handler ==
    /\ checker.pc \notin {"start", "exited"}
    /\ ~checker.shutdown_requested
    /\ checker' = [checker EXCEPT !.shutdown_requested = TRUE]
    /\ UNCHANGED other_vars

(* --------------------------- specification ---------------------------- *)

\* country_status when the workers start: no document, or documents an
\* operator marked for retry
InitialStatus ==
    {[k \in S |-> RetryJob] : S \in SUBSET CountrySet}

\* the state after the workers in started were constructed
InitWith(started, ways, files) ==
    /\ country_status \in InitialStatus
    /\ addresses = EmptyBag
    /\ pbf_files \in files
    /\ shutdown_requested = [w \in Workers |-> FALSE]
    /\ pc = [w \in Workers |-> IF w \in started THEN "run" ELSE "exited"]
    /\ key_idx = [w \in Workers |-> 1]
    /\ country_code = [w \in Workers |-> None]
    /\ current_country = [w \in Workers |-> None]
    /\ handler = [w \in Workers |-> NewHandler]
    /\ accepted = [w \in Workers |-> <<>>]
    /\ handed = [w \in Workers |-> <<>>]
    /\ shutdown_job = [w \in Workers |-> None]
    /\ mishap = FALSE
    /\ max_ways = ways
    /\ controller = NewController
    /\ checker = NewChecker
    /\ probe = NoProbe
    /\ country_limit_reached = [w \in Workers |-> FALSE]

\* PBF files an operator may have put into WORK_DIR by hand
ManualFiles == SUBSET (CountrySet \ GEOFABRIK_URLS)

Init == InitWith(Workers, MaxWaysShared, {{}})

InitPipe == InitWith({1}, MaxWays, ManualFiles)

\* worker_huge_countries.py downloads nothing: the files are in WORK_DIR
InitHuge == InitWith({1}, HugeMaxRecords, SUBSET CountrySet)

\* a step of a worker that runs undisturbed
Work(w) ==
    \/ run(w)
    \/ claim_country_upsert(w)
    \/ claim_country_find(w)
    \/ process_country_start(w)
    \/ way(w)
    \/ apply_file_error(w)
    \/ final_batch(w)
    \/ mark(w)
    \/ cleanup(w)

Next == \E w \in Workers : Work(w)

NextPipe == \E w \in Workers : Work(w) \/ signal_handler(w)

\* a step of a worker of worker_huge_countries.py
Huge_Work(w) ==
    \/ run(w)
    \/ Huge_claim_country_upsert(w)
    \/ Huge_claim_country_find(w)
    \/ Huge_process_country_start(w)
    \/ Huge_node(w)
    \/ Huge_way(w)
    \/ Huge_apply_file_error(w)
    \/ Huge_final_batch(w)
    \/ Huge_mark(w)
    \/ cleanup(w)

NextHuge == \E w \in Workers : Huge_Work(w) \/ signal_handler(w)

\* every worker runs, on short streams, and no signal is delivered
Spec == Init /\ [][Next]_vars

\* one worker runs, on longer streams, and may be signalled at any point
SpecPipe == InitPipe /\ [][NextPipe]_vars

\* one worker of worker_huge_countries.py runs and may be signalled
SpecHuge == InitHuge /\ [][NextHuge]_vars

\* the worker's process keeps running: a step it can take is eventually
\* taken; whether a signal is ever delivered is left open
SpecFair ==
    InitPipe /\ [][NextPipe]_vars /\ \A w \in Workers : WF_vars(Work(w))

\* one handler of each extractor class, before its file's first record
InitTags == InitWith({}, MaxWaysShared, {{}})

NextTags == deliver_way \/ deliver_node \/ next_record

\* what the callbacks of the extractors do with the records they are handed
SpecTags == InitTags /\ [][NextTags]_vars

NextAdmit == admission_check \/ next_record

\* what the admission checks of the workers answer
SpecAdmit == InitTags /\ [][NextAdmit]_vars

NextBatch ==
    main_thread \/ monitor_workers \/ worker_exits \/ controller_signal_handler

\* one run_batch of the controller, its monitor thread and its workers
SpecBatch == InitTags /\ [][NextBatch]_vars

\* the threads keep running and a worker with no work left exits; whether a
\* signal ever arrives is left open
SpecBatchFair ==
    SpecBatch /\ WF_vars(main_thread) /\ WF_vars(monitor_workers)
              /\ WF_vars(worker_exits)

NextCheck ==
    \/ check_start
    \/ check_claim_country
    \/ check_count
    \/ check_loop
    \/ check_process_address
    \/ check_batch_done
    \/ check_release
    \/ check_signal_handler

\* one process of check.py
SpecCheck == InitTags /\ [][NextCheck]_vars

(* ------------------------------- claims ------------------------------- *)

TerminalStatus == {"completed", "skipped"}

\* the workers that hold key k as their claimed job
Owners(k) == {w \in Workers : Holding(w) /\ country_code[w] = k}

\* C1: at most one worker at a time holds a given key as its claimed job,
\* whatever the interleaving of the workers' claim_country calls.
C1_AtMostOneOwner ==
    \A k \in CountrySet : Cardinality(Owners(k)) <= 1

\* C2: a claim_country that returns a key because its record is in retry
\* status leaves that record in processing status with the caller as its
\* worker_id.
C2_RetryClaimRewrites ==
    [][\A w \in Workers :
          (pc[w] = "claim_find" /\ pc'[w] = "process")
          => /\ country_code'[w] \in DOMAIN country_status'
             /\ country_status'[country_code'[w]].status = "processing"
             /\ country_status'[country_code'[w]].worker_id = w]_vars

\* C3: when a worker has exited, the job it held when its shutdown flag was
\* set has been released: the worker deleted that job's record.
C3_ShutdownReleases ==
    \A w \in Workers :
        pc[w] = "exited" => shutdown_job[w] \in {None, "released"}

\* C4: a worker whose shutdown flag is set makes no successful claim:
\* no step of claim_country taken with the flag set returns a key.
C4_NoClaimAfterShutdown ==
    [][\A w \in Workers :
          shutdown_requested[w]
          => ~(pc[w] \in {"claim_upsert", "claim_find"} /\ pc'[w] = "process")]_vars

\* C5: a record in a terminal status (completed or skipped) is never deleted
\* and never changes its status, whatever step a worker takes.
C5_TerminalStable ==
    [][\A k \in DOMAIN country_status :
          country_status[k].status \in TerminalStatus
          => /\ k \in DOMAIN country_status'
             /\ country_status'[k].status = country_status[k].status]_vars

\* C6: when the pipeline has stopped on the cap or on memory, every candidate
\* it accepted has been handed to save_addresses_batch by the time the job is
\* marked.
C6_StopFlushes ==
    \A w \in Workers :
        (pc[w] = "mark" /\ handler[w].limit_reached) => handed[w] = accepted[w]

\* the number of rows of the address collection for country k
RowCount(k) ==
    Cardinality({r \in BagToSet(addresses) : r.country = k})

\* C7: the count a job that reached the cap is recorded with (addresses_saved,
\* the handler's total_saved) is the number of rows the address collection
\* holds for the job's country.
C7_SavedEqualsPersisted ==
    [][\A w \in Workers :
          (pc[w] = "mark" /\ pc'[w] = "run" /\ country_limit_reached[w]
             /\ country_code[w] \in DOMAIN country_status')
          => country_status'[country_code[w]].addresses_saved
                 = RowCount(country_code[w])']_vars

\* C8: the record a job is marked with tells a pipeline that ended on the
\* limit from one that ended at the end of the stream: it carries the limit
\* flag and the count saved exactly when the pipeline ended on the limit.
C8_LimitDistinguished ==
    [][\A w \in Workers :
          (pc[w] = "mark" /\ pc'[w] # "mark"
             /\ country_code[w] \in DOMAIN country_status')
          => LET doc == country_status'[country_code[w]]
             IN  IF handler[w].limit_reached
                 THEN doc.limit_reached /\ doc.addresses_saved = handler[w].total_saved
                 ELSE ~doc.limit_reached]_vars

\* the documents of the address collection with key (k, a)
Rows(k, a) ==
    {r \in BagToSet(addresses) : r.country = k /\ r.fulladdress = a}

\* C10: the address collection never holds two rows with the same
\* (country, fulladdress), and every address handed to save_addresses_batch
\* has its row, also when the batch held duplicates.
C10_DedupOnNaturalKey ==
    /\ \A r \in BagToSet(addresses) :
          /\ CopiesIn(r, addresses) = 1
          /\ Rows(r.country, r.fulladdress) = {r}
    /\ \A w \in Workers : \A i \in 1..Len(handed[w]) :
          Rows(country_code[w], handed[w][i]) # {}

\* C10 witness: a batch whose first address was already stored and whose
\* second was not has been saved, and the second has its row.
C10_Witness ==
    \E w \in Workers :
        /\ Len(handed[w]) = 2 * BATCH_SIZE
        /\ handed[w][BATCH_SIZE + 1] = handed[w][1]
        /\ \A i \in 1..BATCH_SIZE : handed[w][i] # handed[w][2 * BATCH_SIZE]
        /\ Rows(country_code[w], handed[w][2 * BATCH_SIZE]) # {}

\* C9: the number of records a job has handed to the address collection
\* (total_saved) never exceeds the cap.
C9_TotalWithinCap ==
    \A w \in Workers : handler[w].total_saved <= HUGE_LIMIT

\* C11: release_country deletes the record of its key entirely, so that no
\* field of it survives, and the next claim_country upsert that reaches the
\* key, by whichever worker, inserts a fresh processing record owned by that
\* worker and returns the key.
C11_ReleaseDeletes ==
    [][\A k \in CountrySet :
          /\ (k \in DOMAIN country_status
                 /\ country_status' = release_country(country_status, k))
             => /\ k \notin DOMAIN country_status'
                /\ \A w \in Workers :
                      upsert_claim(country_status', k, w)[k] = NewJob(w)
          /\ \A w \in Workers :
                (pc[w] = "claim_upsert" /\ pc'[w] # pc[w]
                   /\ Countries[key_idx[w]] = k
                   /\ k \notin DOMAIN country_status
                   /\ country_status' # country_status)
                => /\ country_status'[k] = NewJob(w)
                   /\ pc'[w] = "process"
                   /\ country_code'[w] = k]_vars

\* C11 witness: a worker that released key k still remembers it, and the
\* other worker has claimed k since with a fresh record of its own.
C11_Witness ==
    \E k \in CountrySet, w1, w2 \in Workers :
        /\ w1 # w2
        /\ ~Holding(w1)
        /\ current_country[w1] = k
        /\ pc[w2] = "process"
        /\ country_code[w2] = k
        /\ k \in DOMAIN country_status
        /\ country_status[k] = NewJob(w2)

\* C12: claim_country returns the first key, in its order, that is absent
\* (it is then inserted as a processing record of the caller) or in retry
\* status: a key it returns was absent or in retry status, and a key it
\* inspects and passes over has a record that is completed, skipped or
\* processing.
C12_ClaimNextOrder ==
    [][\A w \in Workers :
          LET k == Huge_Countries[key_idx[w]]
          IN  /\ (pc[w] \in {"claim_upsert", "claim_find"} /\ pc'[w] = "process")
                 => /\ country_code'[w] = k
                    /\ \/ /\ k \notin DOMAIN country_status
                          /\ country_status'[k] = NewJob(w)
                       \/ /\ k \in DOMAIN country_status
                          /\ country_status[k].status = "retry"
              /\ (pc[w] = "claim_find" /\ pc'[w] \in {"claim_upsert", "cleanup"})
                 => /\ k \in DOMAIN country_status
                    /\ country_status[k].status
                           \in {"completed", "skipped", "processing"}]_vars

\* C13: a step in which apply_file raises leaves the job either released (its
\* record deleted) or skipped with a memory-error reason; it never leaves a
\* completed record.
C13_DecodeErrorOutcome ==
    [][\A w \in Workers :
          (pc[w] = "apply" /\ pc'[w] = "run")
          => \/ country_code[w] \notin DOMAIN country_status'
             \/ /\ country_status'[country_code[w]].status = "skipped"
                /\ country_status'[country_code[w]].reason
                       \in {"memory_error", "memory_error_chunked"}]_vars

\* C14: when process_country returns before the extraction because the PBF
\* file could not be had or was refused, the job's record is skipped with the
\* reason of its case (no_geofabrik_url: no URL for the key; download_failed:
\* a URL but no file; file_too_large: check_file_size refused the file), no
\* record of the stream was processed or saved, and the worker is back in
\* run's loop with no job of its own.
C14_SkipReasons ==
    [][\A w \in Workers :
          (pc[w] = "process" /\ pc'[w] = "run"
             /\ country_code[w] \in DOMAIN country_status')
          => LET k == country_code[w]
                 doc == country_status'[k]
             IN  /\ doc.status = "skipped"
                 /\ doc.reason = IF k \in pbf_files' THEN "file_too_large"
                                 ELSE IF k \in GEOFABRIK_URLS THEN "download_failed"
                                 ELSE "no_geofabrik_url"
                 /\ handler[w] = NewHandler
                 /\ handed[w] = <<>>
                 /\ addresses' = addresses
                 /\ current_country'[w] = None]_vars

\* C14 witness: the worker skipped one job for its file's size and another
\* for want of a URL, and went on to the end of its loop.
C14_Witness ==
    \E w \in Workers, k1, k2 \in DOMAIN country_status :
        /\ pc[w] = "cleanup"
        /\ country_status[k1].status = "skipped"
        /\ country_status[k1].reason = "file_too_large"
        /\ country_status[k1].worker_id = w
        /\ country_status[k2].status = "skipped"
        /\ country_status[k2].reason = "no_geofabrik_url"
        /\ country_status[k2].worker_id = w
        /\ addresses = EmptyBag

\* the reasons process_country of either worker passes to mark_skipped
SkipReasons ==
    {"no_geofabrik_url", "download_failed", "file_too_large", "memory_error",
     "no_pbf_file", "memory_error_chunked"}

\* the fields of the records of a collection that C15 is about
Observable(col) ==
    [k \in DOMAIN col |-> <<col[k].status, col[k].reason, col[k].worker_id>>]

\* C15: on every country_status the workers reach, a second mark_complete or
\* mark_skipped with the same arguments leaves status, reason and worker_id
\* of every record as the first left them, and a mark on a key without a
\* record creates none.
C15_IdempotentMarks ==
    \A k \in CountrySet :
        /\ Observable(mark_complete(mark_complete(country_status, k), k))
               = Observable(mark_complete(country_status, k))
        /\ Observable(Huge_mark_complete(Huge_mark_complete(country_status, k), k))
               = Observable(Huge_mark_complete(country_status, k))
        /\ DOMAIN mark_complete(country_status, k) = DOMAIN country_status
        /\ DOMAIN Huge_mark_complete(country_status, k) = DOMAIN country_status
        /\ \A r \in SkipReasons :
              /\ Observable(mark_skipped(mark_skipped(country_status, k, r), k, r))
                     = Observable(mark_skipped(country_status, k, r))
              /\ DOMAIN mark_skipped(country_status, k, r) = DOMAIN country_status

\* C15 witness: a key's record is completed already and a worker that holds
\* the same key is about to call mark_complete on it again, while the other
\* key has no record.
C15_Witness ==
    \E w \in Workers, k \in CountrySet :
        /\ pc[w] = "mark"
        /\ country_code[w] = k
        /\ k \in DOMAIN country_status
        /\ country_status[k].status = "completed"
        /\ DOMAIN country_status # CountrySet

\* C16: in the callback in which total_saved meets the cap the limit flag is
\* set; the flag does not go back to false while the job's stream is
\* decoded; and a callback that starts with total_saved at or above the cap
\* leaves addresses_batch, found and total_saved as they are.
C16_LimitTerminal ==
    [][\A w \in Workers :
          (pc[w] = "apply" /\ pc'[w] = "apply")
          => /\ handler'[w].total_saved >= HUGE_LIMIT => country_limit_reached'[w]
             /\ country_limit_reached[w] => country_limit_reached'[w]
             /\ handler[w].total_saved >= HUGE_LIMIT
                => /\ handler'[w].addresses_batch = handler[w].addresses_batch
                   /\ handler'[w].found = handler[w].found
                   /\ handler'[w].total_saved = handler[w].total_saved]_vars

\* s is an initial part of t
IsPrefix(s, t) == Len(s) <= Len(t) /\ SubSeq(t, 1, Len(s)) = s

\* C17: within a job, the addresses handed to save_addresses_batch, batch
\* after batch, are an initial part of the candidates accepted, in the order
\* of their acceptance: no save reorders, repeats or skips a candidate.
C17_FlushOrder ==
    \A w \in Workers : IsPrefix(handed[w], accepted[w])

\* C17 witness: a full batch and then a final batch were saved, of addresses
\* that differ, and together they are all that was accepted.
C17_Witness ==
    \E w \in Workers :
        /\ pc[w] = "mark"
        /\ Len(handed[w]) = BATCH_SIZE + 1
        /\ handed[w] = accepted[w]
        /\ handed[w][1] # handed[w][2]
        /\ handler[w].total_saved = BATCH_SIZE + 1

\* C18: when the stream has ended with the pipeline not stopped on a limit,
\* the addresses still buffered have been saved, so that by the time the job
\* is marked, below the cap, total_saved equals found and everything
\* accepted was handed to save_addresses_batch.
C18_DoneSavedAll ==
    \A w \in Workers :
        (pc[w] = "mark" /\ ~handler[w].limit_reached
           /\ handler[w].total_saved < MAX_ADDRESSES_PER_COUNTRY)
        => /\ handler[w].total_saved = handler[w].found
           /\ handed[w] = accepted[w]

\* C18 witness: the stream ended after a full batch was saved, with one
\* more address buffered, and the job is about to be marked with all of them
\* saved.
C18_Witness ==
    \E w \in Workers :
        /\ pc[w] = "mark"
        /\ ~handler[w].limit_reached
        /\ Len(handler[w].addresses_batch) = 1
        /\ handler[w].found = BATCH_SIZE + 1
        /\ handler[w].total_saved = handler[w].found
        /\ handler[w].processed = max_ways

\* C19: once a check_memory_usage of the job has returned False, no record
\* that arrives later in the stream is accepted: found stays as it is.
C19_MemoryStopIsFinal ==
    [][\A w \in Workers :
          (pc[w] = "apply" /\ pc'[w] = "apply" /\ handler[w].memory_stop)
          => handler'[w].found = handler[w].found]_vars

\* C20: every worker's loop terminates: the worker eventually leaves run
\* and its process exits, whatever the outcomes of its jobs.
C20_WorkersTerminate ==
    \A w \in Workers : <>(pc[w] = "exited")

\* C21: a step of worker w that deletes a record deletes one that w holds:
\* the record has w as its worker_id and is in processing status; it is never
\* a record another worker has claimed since.
C21_ReleaseOwnRecord ==
    [][\A w \in Workers, k \in DOMAIN country_status :
          (pc'[w] # pc[w] /\ k \notin DOMAIN country_status')
          => /\ country_status[k].worker_id = w
             /\ country_status[k].status = "processing"]_vars

\* C22: when every worker has exited, no signal was delivered, no job was
\* released for a retry and no call of claim_country raised, every key of the
\* candidate list has a record in a terminal status.
C22_QuiescenceComplete ==
    ((\A w \in Workers : pc[w] = "exited" /\ ~shutdown_requested[w])
       /\ ~mishap)
    => \A k \in CountrySet :
          /\ k \in DOMAIN country_status
          /\ country_status[k].status \in TerminalStatus

\* C23: a record of country_status carries a skip reason only while its
\* status is skipped.
C23_ReasonOnlyWhenSkipped ==
    \A k \in DOMAIN country_status :
        country_status[k].reason # "none" => country_status[k].status = "skipped"

\* C24: while a job's stream is decoded, after every callback found equals
\* total_saved plus the length of addresses_batch, and no callback lowers
\* total_saved.
C24_CounterInvariant ==
    [][\A w \in Workers :
          pc'[w] = "apply"
          => /\ handler'[w].found
                    = handler'[w].total_saved + Len(handler'[w].addresses_batch)
             /\ pc[w] = "apply"
                => handler'[w].total_saved >= handler[w].total_saved]_vars

\* C24 witness: check_memory_usage has saved a partial batch, so that
\* total_saved is no multiple of the chunk size, and an address accepted
\* since is buffered.
C24_Witness ==
    \E w \in Workers :
        /\ pc[w] = "apply"
        /\ handler[w].total_saved % CHUNK_SIZE # 0
        /\ handler[w].addresses_batch # <<>>
        /\ handler[w].found
               = handler[w].total_saved + Len(handler[w].addresses_batch)

\* the record of Scenario A was handed to the way callbacks
ScenarioA ==
    /\ probe.kind = "way"
    /\ probe.rec.tags = ("building" :> S_house @@ "addr:street" :> S_MainSt
                           @@ "addr:housenumber" :> S_12
                           @@ "addr:city" :> S_Springfield
                           @@ "addr:country" :> S_US)

\* C25: the tag filter of the way callbacks turns a record away exactly when
\* it has no building tag or has neither addr:street nor addr:housenumber: a
\* way with a building tag and at least one of the two gets past the filter
\* of every extractor, and any other way is never appended.
C25_TagFilter ==
    probe.kind = "way"
    => LET t == DOMAIN probe.rec.tags
           pass == /\ "building" \in t
                   /\ ("addr:street" \in t \/ "addr:housenumber" \in t)
       IN  /\ (probe.basic.stage = "filter") <=> ~pass
           /\ (probe.huge.stage = "filter") <=> ~pass
           /\ (probe.memory_safe = "filter") <=> ~pass
           /\ (probe.enhanced = "filter") <=> ~pass
           /\ ~pass => (~probe.basic.appended /\ ~probe.huge.appended)

\* C26: a node is accepted into the batch exactly as a way of the same tags
\* and an acceptable bounding box is, by the same extractor in the same job.
C26_NodeAsWay ==
    probe.kind = "node"
    => LET w == [tags |-> probe.rec.tags, nodes |-> <<Node(0, 0, TRUE)>>,
                 n_nodes |-> 1]
       IN  /\ probe.basic.appended = way_record(w, probe.job).appended
           /\ probe.huge.appended = Huge_way_record(w, probe.job).appended
           /\ (probe.memory_safe = "extract") <=> (MemorySafe_way_stage(w) = "extract")
           /\ (probe.enhanced = "extract") <=> (Enhanced_way_stage(w) = "extract")

\* C27: a way whose bounding-box estimate (calculate_bbox, over its bounded
\* sample of coordinates) exceeds the ceiling max_bbox is turned away before
\* extract_address_info is called, whatever its tags, and is not appended,
\* by the extractor of every worker.
C27_BboxRejects ==
    (probe.kind = "way" /\ calculate_bbox(probe.rec.nodes) > max_bbox)
    => /\ ~probe.basic.extracted /\ ~probe.basic.appended
       /\ ~probe.huge.extracted /\ ~probe.huge.appended
       /\ probe.memory_safe # "extract"
       /\ probe.enhanced # "extract"

\* C28: a record without addr:city, or whose addr:city is the text
\* "Unknown", is not appended to the batch, and looks_like_address is not
\* called for it.
C28_NoCityRejected ==
    (/\ probe.kind \in {"node", "way"}
     /\ ("addr:city" \in DOMAIN probe.rec.tags => probe.rec.tags["addr:city"] = S_Unknown))
    => /\ ~probe.basic.appended /\ ~probe.basic.validated
       /\ ~probe.huge.appended /\ ~probe.huge.validated

\* C28 witness: a way without addr:city, of a fullAddress longer than 30
\* characters, came as far as the city check of both extractors.
C28_Witness ==
    /\ probe.kind = "way"
    /\ "addr:city" \notin DOMAIN probe.rec.tags
    /\ probe.basic.stage = "city"
    /\ probe.huge.stage = "city"

\* the parts of tags under the keys of ks, in the order of ks, those that
\* are missing or empty left out
PresentParts(tags, ks) ==
    LET RECURSIVE parts(_)
        parts(i) ==
            IF i > Len(ks) THEN <<>>
            ELSE (IF ks[i] \in DOMAIN tags /\ tags[ks[i]] # <<>>
                  THEN <<tags[ks[i]]>> ELSE <<>>) \o parts(i + 1)
    IN  parts(1)

\* C29: the fullAddress an extractor makes of a record is the ", "-joined
\* list of building name, "<house number> <street>" (or the street alone),
\* suburb, city, postcode and country full name, in this order, with the
\* parts that are missing or empty left out.
C29_FullAddressAssembly ==
    probe.kind \in {"node", "way"}
    => LET tags == probe.rec.tags
           street == IF /\ "addr:housenumber" \in DOMAIN tags
                        /\ "addr:street" \in DOMAIN tags
                        /\ tags["addr:housenumber"] # <<>>
                     THEN <<tags["addr:housenumber"] \o <<" ">> \o tags["addr:street"]>>
                     ELSE PresentParts(tags, <<"addr:street">>)
           country == CountryNameOf(extract_address_info(tags), probe.job)
           expected == join(<<",", " ">>,
                            PresentParts(tags, <<"name">>) \o street
                              \o PresentParts(tags, <<"addr:suburb", "addr:city",
                                                       "addr:postcode">>)
                              \o <<country>>)
       IN  /\ probe.basic.fulladdress \in {NoText, expected}
           /\ probe.huge.fulladdress \in {NoText, expected}

\* "12 Main St, Springfield, United States"
ScenarioA_fullAddress ==
    S_12 \o <<" ">> \o S_MainSt \o <<",", " ">> \o S_Springfield
         \o <<",", " ">> \o S_UnitedStates

\* C30, as the specification states it: the record of Scenario A passes the
\* filter, length and city checks with its fullAddress, and looks_like_address
\* then rejects it for having fewer than 2 commas, so it is not appended.
C30_ScenarioA_Rejected ==
    (ScenarioA /\ calculate_bbox(probe.rec.nodes) <= max_bbox)
    => /\ probe.basic.fulladdress = ScenarioA_fullAddress
       /\ probe.basic.stage = "invalid"
       /\ looks_like_address_rule(probe.basic.fulladdress) = "few_commas"
       /\ ~probe.basic.appended

\* C30, amended: the record of Scenario A passes the filter, length and city
\* checks with fullAddress "12 Main St, Springfield, United States", which
\* has 2 commas; looks_like_address is called and accepts it, and the record
\* is appended to the batch.
C30_ScenarioA_Accepted ==
    (ScenarioA /\ calculate_bbox(probe.rec.nodes) <= max_bbox)
    => /\ probe.basic.fulladdress = ScenarioA_fullAddress
       /\ count_in(probe.basic.fulladdress, {","}) = 2
       /\ probe.basic.validated
       /\ looks_like_address(probe.basic.fulladdress)
       /\ probe.basic.appended

\* C30 witness: the way of Scenario A, of a bounding box under the ceiling,
\* went through the way callback of worker.py.
C30_Witness ==
    /\ ScenarioA
    /\ calculate_bbox(probe.rec.nodes) <= max_bbox
    /\ Len(probe.rec.nodes) = 2
    /\ probe.basic.stage # "filter"

\* the last of the ", "-separated parts of a fullAddress
LastPart(text) ==
    LET sections == split_commas(text, <<>>)
    IN  strip(sections[Len(sections)])

\* C31: the country part of a fullAddress is the table's name of the
\* record's addr:country code when the tag is there and the table has the
\* code, and the job's own country name when the tag is absent or the table
\* does not have its code.
C31_CountryPart ==
    (probe.kind = "way" /\ probe.basic.fulladdress # NoText)
    => LET tags == probe.rec.tags
           known == /\ "addr:country" \in DOMAIN tags
                    /\ upper(tags["addr:country"]) \in DOMAIN country_names
       IN  LastPart(probe.basic.fulladdress)
               = IF known THEN country_names[upper(tags["addr:country"])]
                 ELSE probe.job.country_name

\* C32: the admission check answers true if and only if the available
\* memory is strictly greater than the memory the check estimates for the
\* file (twice the file's size in worker.py, four times in the other two
\* workers) and the used-memory percentage is below the ceiling (85 in
\* worker.py and worker_enhanced.py, 80 in worker_memory_safe.py), where
\* psutil is there to tell the two figures and the file's size can be read.
C32_AdmissionCheck ==
    (probe.kind = "admission" /\ probe.monitoring /\ ~probe.stat_fails)
    => /\ probe.basic = TRUE
             <=> (probe.available_memory > probe.file_size * 2 /\ probe.percent < 85)
       /\ probe.memory_safe = TRUE
             <=> (probe.available_memory > probe.file_size * 4 /\ probe.percent < 80)
       /\ probe.enhanced = TRUE
             <=> (probe.available_memory > probe.file_size * 4 /\ probe.percent < 85)

\* C33: run_batch returns in the end, without a shutdown signal, when every
\* worker process exits for want of work.
C33_RunBatchReturns ==
    <>(controller.shutdown_requested \/ controller.main_pc = "returned")

\* C34: once the signal handler has returned (shutdown_requested set and
\* stop_all_workers done), no worker process is running and none has been
\* started since.
C34_NoWorkerAfterShutdown ==
    controller.handled
    => /\ \A i \in ControllerIds : controller.proc[i] # "running"
       /\ ~controller.late_start

\* C35: when process_country ends because shutdown was requested or because
\* it raised, release_country puts the country's record back to status
\* "completed", the status claim_country looks for.
C35_ReleaseForRetry ==
    [][(checker.pc = "release" /\ checker'.pc = "run"
          /\ (checker.shutdown_requested \/ checker.error))
       => checker'.status[checker.country_code].status = "completed"]_vars

\* the number of times r is in seq
RECURSIVE Occurrences(_, _)
Occurrences(seq, r) ==
    IF seq = <<>> THEN 0
    ELSE (IF Head(seq) = r THEN 1 ELSE 0) + Occurrences(Tail(seq), r)

\* C36: when process_country has gone through a country undisturbed, every
\* row the country had at the start was examined exactly once, rows deleted
\* on the way included.
C36_EveryRowExamined ==
    (checker.pc = "release" /\ ~checker.shutdown_requested /\ ~checker.error)
    => \A i \in 1..Len(checker.start_rows) :
          Occurrences(checker.examined, checker.start_rows[i]) = 1
====
